---- MODULE Spec2Model ----
(***************************************************************************)
(* Happy-Home-Backend (src/app.py): a Flask service over four SQLite       *)
(* tables (user, member, list, event).  The state is the content of the    *)
(* four tables (and, for concurrent requests, what each thread has read).  *)
(* One action per route; a handler is an operator that maps the current    *)
(* tables and the request's inputs to the new tables and the response it   *)
(* sends.  An unhandled Python exception is a response with status 500;    *)
(* the request's session is discarded, so nothing it did is stored.        *)
(***************************************************************************)
EXTENDS Integers, FiniteSets, Sequences, TLC

VARIABLES users, members, lists, events, inflight

vars == <<users, members, lists, events, inflight>>

(* ------------------------------ bounds -------------------------------- *)
\* Largest primary key a table may hand out in the model.
MaxUserId == 2
MaxMemberId == 2
MaxListId == 1
MaxEventId == 1
\* Number of server threads serving /user/add at the same time (SpecConc).
MaxThreads == 2

(* ------------------------- values of a request ------------------------ *)
\* Python's None / JSON null / SQL NULL, and a value that is present.
None == << >>
Some(v) == << v >>
Opt(S) == {None} \cup {Some(v) : v \in S}

JSON == "application/json"
ContentTypes == {JSON, "text/plain"}

Usernames == {"ann", "bob"}
Passwords == {"pw1", "pw2"}
Emails == {"a@x", "b@x"}
FirstNames == {"Al", "Jo"}
LastNames == {"Doe"}
Texts == {"milk"}
ListTypes == {"todo"}
Titles == {"party"}
Starts == {"t0"}
Ends == {"t1"}

UserIds == 1..MaxUserId
MemberIds == 1..MaxMemberId

\* A path parameter <id> is a string: a decimal number, or not a number.
PathIds(max) == {ToString(i) : i \in 1..max} \cup {"x"}

\* Bodies of the JSON requests; post_data.get(k) of a missing key is None.
UserPayloads ==
    [username : Opt(Usernames), password : Opt(Passwords),
     email : Opt(Emails), img : {None}]
VerifyPayloads == [username : Opt(Usernames), password : Opt(Passwords)]
MemberPayloads ==
    [first_name : Opt(FirstNames), last_name : Opt(LastNames),
     user_id : Opt(UserIds)]
MemberUpdates == [first_name : Opt(FirstNames), last_name : Opt(LastNames)]
ItemPayloads ==
    [text : Opt(Texts), is_completed : Opt(BOOLEAN),
     list_type : Opt(ListTypes), member_id : Opt(MemberIds)]
EventPayloads ==
    [title : Opt(Titles), start : Opt(Starts), end : Opt(Ends),
     user_id : Opt(UserIds)]

(* ------------------------------ storage ------------------------------- *)
\* The connection string names SQLite and the code never issues
\* PRAGMA foreign_keys = ON, so REFERENCES clauses are not enforced.
foreign_keys == FALSE

\* SQLite compares an INTEGER column with a bound text value after giving the
\* text NUMERIC affinity: "2" becomes 2, "x" stays text and equals no integer.
NumericAffinity(tok) ==
    LET n == {i \in 0..(MaxUserId + MaxMemberId + MaxListId + MaxEventId) :
                ToString(i) = tok}
    IN IF n = {} THEN None ELSE Some(CHOOSE i \in n : TRUE)

\* Column == <path parameter>, as the filter() of the GET/DELETE routes.
ColumnEq(col, tok) == NumericAffinity(tok) = Some(col)

Max(S) == CHOOSE m \in S : \A o \in S : o <= m

\* INTEGER PRIMARY KEY without AUTOINCREMENT: one more than the largest rowid
\* in the table (so the id of a deleted last row is handed out again).
NextRowId(ids) == IF ids = {} THEN 1 ELSE Max(ids) + 1

\* Query.first(): the first row or None (here: a set with at most one row).
first(rows) == IF rows = {} THEN {} ELSE {CHOOSE r \in rows : TRUE}

\* class User: NOT NULL and UNIQUE constraints checked by the INSERT.
UserNotNull(username, password, email) ==
    username # None /\ password # None /\ email # None
\* Faulty variant: the username column loses unique=True.
UserUnique_email_only(username, email) ==
    \A u \in users : Some(u.email) # email
UserUnique(username, email) ==
    /\ \A u \in users : Some(u.username) # username
    /\ \A u \in users : Some(u.email) # email

\* class Member / List / Event: NOT NULL on every column but is_completed;
\* the ForeignKey is enforced only under PRAGMA foreign_keys.
MemberConstraints(first_name, last_name, user_id) ==
    /\ first_name # None /\ last_name # None /\ user_id # None
    /\ foreign_keys => \E u \in users : Some(u.id) = user_id
ListConstraints(text, list_type, member_id) ==
    /\ text # None /\ list_type # None /\ member_id # None
    /\ foreign_keys => \E m \in members : Some(m.member_id) = member_id
EventConstraints(title, start, end, user_id) ==
    /\ title # None /\ start # None /\ end # None /\ user_id # None
    /\ foreign_keys => \E u \in users : Some(u.id) = user_id

(* ---------------------------- credentials ----------------------------- *)
\* bcrypt: a one-way function of the password, injective here; the stored
\* text is never the password itself.
generate_password_hash(password) == "$2b$" \o password
\* Faulty variant: the check accepts any password that is not the stored text.
check_password_hash_any(pw_hash, password) ==
    pw_hash # password
check_password_hash(pw_hash, password) ==
    pw_hash = generate_password_hash(password)

(* ------------------------------ schemas ------------------------------- *)
event_schema(e) ==
    [event_id |-> e.event_id, title |-> e.title, start |-> e.start,
     end |-> e.end]
list_schema(l) ==
    [list_id |-> l.list_id, text |-> l.text,
     is_completed |-> l.is_completed, list_type |-> l.list_type]
\* Member.lists: the rows of list whose member_id is the member's key.
member_schema(m, ls) ==
    [member_id |-> m.member_id, first_name |-> m.first_name,
     last_name |-> m.last_name,
     lists |-> {list_schema(l) : l \in {x \in ls : x.member_id = m.member_id}}]
\* User.members / User.events: the rows whose user_id is the user's key.
user_schema(u, ms, ls, es) ==
    [id |-> u.id, username |-> u.username, password |-> u.password,
     email |-> u.email, img |-> u.img,
     members |-> {member_schema(m, ls) : m \in {x \in ms : x.user_id = u.id}},
     events |-> {event_schema(e) : e \in {x \in es : x.user_id = u.id}}]

(* ----------------------------- responses ------------------------------ *)
\* jsonify(<string>), jsonify(schema.dump(<row or None>)),
\* jsonify(schema.dump(<rows>)), and the 500 of an unhandled exception.
String(s) == [status |-> 200, kind |-> "string", text |-> s, data |-> {}]
Object(rows) == [status |-> 200, kind |-> "object", text |-> "", data |-> rows]
Array(rows) == [status |-> 200, kind |-> "array", text |-> "", data |-> rows]
Fault(exc) == [status |-> 500, kind |-> "error", text |-> exc, data |-> {}]

NotJson == String("Error: Data must be json")

Db == [users |-> users, members |-> members, lists |-> lists,
       events |-> events]
\* What a handler leaves behind: the tables and the response.
Reply(resp) == [db |-> Db, response |-> resp]
Commit(db, resp) == [db |-> db, response |-> resp]

(* ---------------------------- user routes ----------------------------- *)
\* add_user up to the two duplicate look-ups: the early response, or {} when
\* the handler goes on to the INSERT.  Both look-ups filter on
\* User.username == username.
add_user_lookup(content_type, post_data) ==
    IF content_type # JSON THEN {NotJson}
    ELSE LET username == post_data.username
             username_duplicate ==
                 first({u \in users : Some(u.username) = username})
             email_duplicate ==
                 first({u \in users : Some(u.username) = username})
         IN IF username_duplicate # {}
            THEN {String("Error: The username is already registered.")}
            ELSE IF email_duplicate # {}
            THEN {String("Error: The email is already registered.")}
            ELSE {}

\* add_user from the hashing on: generate_password_hash raises on a missing
\* password, the INSERT raises IntegrityError on a violated constraint.
add_user_commit(post_data) ==
    LET username == post_data.username
        password == post_data.password
        email == post_data.email
        img == post_data.img
    IN IF password = None THEN Reply(Fault("ValueError"))
       ELSE IF ~(UserNotNull(username, password, email)
                 /\ UserUnique(username, email))
       THEN Reply(Fault("IntegrityError"))
       ELSE LET new_user ==
                    [id |-> NextRowId({u.id : u \in users}),
                     username |-> username[1],
                     password |-> generate_password_hash(password[1]),
                     email |-> email[1], img |-> img]
            IN Commit([Db EXCEPT !.users = users \cup {new_user}],
                      Object({user_schema(new_user, members, lists, events)}))

add_user(content_type, post_data) ==
    LET early == add_user_lookup(content_type, post_data)
    IN IF early # {} THEN Reply(CHOOSE r \in early : TRUE)
       ELSE add_user_commit(post_data)

\* The look-up by username comes first; check_password_hash raises on a
\* missing password, as it hashes the password it is given.
verify_user(content_type, post_data) ==
    IF content_type # JSON THEN Reply(NotJson)
    ELSE LET username == post_data.username
             password == post_data.password
             user == first({u \in users : Some(u.username) = username})
         IN IF user = {} THEN Reply(String("User NOT verified"))
            ELSE LET u == CHOOSE x \in user : TRUE
                 IN IF password = None THEN Reply(Fault("TypeError"))
                    ELSE IF ~check_password_hash(u.password, password[1])
                    THEN Reply(String("User NOT verified"))
                    ELSE Reply(Object({user_schema(u, members, lists,
                                                   events)}))

get_all_users ==
    Reply(Array({user_schema(u, members, lists, events) : u \in users}))

\* user_schema.dump(None) is the empty object.
get_user_by_id(id) ==
    LET user == first({u \in users : ColumnEq(u.id, id)})
    IN Reply(Object({user_schema(u, members, lists, events) : u \in user}))

\* Faulty variant: Member.lists loses its cascade, so the items of a deleted user's
\* members stay.
delete_user_by_id_keep_lists(id) ==
    LET user == first({u \in users : ColumnEq(u.id, id)})
    IN IF user = {} THEN Reply(Fault("UnmappedInstanceError"))
       ELSE LET u == CHOOSE x \in user : TRUE
            IN Commit([Db EXCEPT
                          !.users = users \ {u},
                          !.members = {m \in members : m.user_id # u.id},
                          !.events = {e \in events : e.user_id # u.id}],
                      String("The user has been deleted"))

\* session.delete(user) with cascade='all, delete, delete-orphan' on
\* User.members, User.events and Member.lists; session.delete(None) raises.
delete_user_by_id(id) ==
    LET user == first({u \in users : ColumnEq(u.id, id)})
    IN IF user = {} THEN Reply(Fault("UnmappedInstanceError"))
       ELSE LET u == CHOOSE x \in user : TRUE
                gone == {m \in members : m.user_id = u.id}
            IN Commit([users |-> users \ {u},
                       members |-> members \ gone,
                       lists |-> {l \in lists :
                                    \A m \in gone : l.member_id # m.member_id},
                       events |-> {e \in events : e.user_id # u.id}],
                      String("The user has been deleted"))

(* --------------------------- member routes ---------------------------- *)
add_member(content_type, post_data) ==
    IF content_type # JSON THEN Reply(NotJson)
    ELSE LET first_name == post_data.first_name
             last_name == post_data.last_name
             user_id == post_data.user_id
         IN IF ~MemberConstraints(first_name, last_name, user_id)
            THEN Reply(Fault("IntegrityError"))
            ELSE LET new_member ==
                         [member_id |->
                              NextRowId({m.member_id : m \in members}),
                          first_name |-> first_name[1],
                          last_name |-> last_name[1],
                          user_id |-> user_id[1]]
                 IN Commit([Db EXCEPT !.members = members \cup {new_member}],
                           Object({member_schema(new_member, lists)}))

get_member_by_id(id) ==
    LET member == first({m \in members : ColumnEq(m.member_id, id)})
    IN Reply(Object({member_schema(m, lists) : m \in member}))

\* Faulty variant: the query loses its filter.
get_members_unfiltered(user_id) ==
    Reply(Array({member_schema(m, lists) : m \in members}))

get_members_by_user_id(user_id) ==
    LET rows == {m \in members : ColumnEq(m.user_id, user_id)}
    IN Reply(Array({member_schema(m, lists) : m \in rows}))

delete_member_by_id(id) ==
    LET member == first({m \in members : ColumnEq(m.member_id, id)})
    IN IF member = {} THEN Reply(Fault("UnmappedInstanceError"))
       ELSE LET m == CHOOSE x \in member : TRUE
            IN Commit([Db EXCEPT
                          !.members = members \ {m},
                          !.lists = {l \in lists :
                                       l.member_id # m.member_id}],
                      String("The family member has been deleted."))

\* The attributes class Member and class List define (columns, relationships
\* and the backrefs of the parents' relationships).
MemberAttributes ==
    {"member_id", "first_name", "last_name", "user_id", "lists", "User"}
ListAttributes ==
    {"list_id", "text", "is_completed", "list_type", "member_id", "Member"}

\* The filter reads Member.id: evaluating it raises AttributeError unless the
\* class has that attribute; only then does the handler reach its
\* assignments (each raises on member None) and its commit.
update_member_by_id(id, content_type, post_data) ==
    IF content_type # JSON THEN Reply(NotJson)
    ELSE LET first_name == post_data.first_name
             last_name == post_data.last_name
         IN IF "id" \notin MemberAttributes
            THEN Reply(Fault("AttributeError"))
            ELSE LET member ==
                         first({m \in members : ColumnEq(m.member_id, id)})
                 IN IF member = {} /\ (first_name # None \/ last_name # None)
                    THEN Reply(Fault("AttributeError"))
                    ELSE LET upd(m) ==
                                 [m EXCEPT
                                    !.first_name =
                                        IF first_name # None
                                        THEN first_name[1] ELSE @,
                                    !.last_name =
                                        IF last_name # None
                                        THEN last_name[1] ELSE @]
                         IN Commit([Db EXCEPT
                                       !.members = (members \ member)
                                           \cup {upd(m) : m \in member}],
                                   String("Member has been updated"))

(* ---------------------------- list routes ----------------------------- *)
\* is_completed None is left out of the INSERT, so the column default False
\* is stored.
add_item(content_type, post_data) ==
    IF content_type # JSON THEN Reply(NotJson)
    ELSE LET text == post_data.text
             is_completed == post_data.is_completed
             list_type == post_data.list_type
             member_id == post_data.member_id
         IN IF ~ListConstraints(text, list_type, member_id)
            THEN Reply(Fault("IntegrityError"))
            ELSE LET new_item ==
                         [list_id |-> NextRowId({l.list_id : l \in lists}),
                          text |-> text[1],
                          is_completed |->
                              IF is_completed = None THEN FALSE
                              ELSE is_completed[1],
                          list_type |-> list_type[1],
                          member_id |-> member_id[1]]
                 IN Commit([Db EXCEPT !.lists = lists \cup {new_item}],
                           Object({list_schema(new_item)}))

get_items_by_member_id(member_id) ==
    LET items == {l \in lists : ColumnEq(l.member_id, member_id)}
    IN Reply(Array({list_schema(l) : l \in items}))

\* The filter reads List.id; see update_member_by_id.
update_item_by_id(id, content_type, post_data) ==
    IF content_type # JSON THEN Reply(NotJson)
    ELSE LET text == post_data.text
             is_completed == post_data.is_completed
             list_type == post_data.list_type
             member_id == post_data.member_id
         IN IF "id" \notin ListAttributes
            THEN Reply(Fault("AttributeError"))
            ELSE LET item == first({l \in lists : ColumnEq(l.list_id, id)})
                 IN IF item = {} /\ (text # None \/ is_completed # None
                                     \/ list_type # None \/ member_id # None)
                    THEN Reply(Fault("AttributeError"))
                    ELSE LET upd(l) ==
                                 [l EXCEPT
                                    !.text =
                                        IF text # None THEN text[1] ELSE @,
                                    !.is_completed =
                                        IF is_completed # None
                                        THEN is_completed[1] ELSE @,
                                    !.list_type =
                                        IF list_type # None
                                        THEN list_type[1] ELSE @,
                                    !.member_id =
                                        IF member_id # None
                                        THEN member_id[1] ELSE @]
                         IN Commit([Db EXCEPT
                                       !.lists = (lists \ item)
                                           \cup {upd(l) : l \in item}],
                                   String("List item has been updated"))

delete_item_by_id(id) ==
    LET item == first({l \in lists : ColumnEq(l.list_id, id)})
    IN IF item = {} THEN Reply(Fault("UnmappedInstanceError"))
       ELSE Commit([Db EXCEPT !.lists = lists \ item],
                   String("The list item has been deleted."))

(* ---------------------------- event routes ---------------------------- *)
\* Faulty variant: the handler loses its content-type check.
add_event_any_content_type(content_type, post_data) ==
    LET title == post_data.title
        start == post_data.start
        end == post_data.end
        user_id == post_data.user_id
    IN IF ~EventConstraints(title, start, end, user_id)
       THEN Reply(Fault("IntegrityError"))
       ELSE LET new_event ==
                    [event_id |-> NextRowId({e.event_id : e \in events}),
                     title |-> title[1], start |-> start[1],
                     end |-> end[1], user_id |-> user_id[1]]
            IN Commit([Db EXCEPT !.events = events \cup {new_event}],
                      Object({event_schema(new_event)}))

add_event(content_type, post_data) ==
    IF content_type # JSON THEN Reply(NotJson)
    ELSE LET title == post_data.title
             start == post_data.start
             end == post_data.end
             user_id == post_data.user_id
         IN IF ~EventConstraints(title, start, end, user_id)
            THEN Reply(Fault("IntegrityError"))
            ELSE LET new_event ==
                         [event_id |->
                              NextRowId({e.event_id : e \in events}),
                          title |-> title[1], start |-> start[1],
                          end |-> end[1], user_id |-> user_id[1]]
                 IN Commit([Db EXCEPT !.events = events \cup {new_event}],
                           Object({event_schema(new_event)}))

get_events_by_user_id(user_id) ==
    LET rows == {e \in events : ColumnEq(e.user_id, user_id)}
    IN Reply(Array({event_schema(e) : e \in rows}))

delete_event_by_id(id) ==
    LET event == first({e \in events : ColumnEq(e.event_id, id)})
    IN IF event = {} THEN Reply(Fault("UnmappedInstanceError"))
       ELSE Commit([Db EXCEPT !.events = events \ event],
                   String("The event has been deleted."))

(* ------------------------------ requests ------------------------------ *)
\* The tables stay within the model's primary keys.
InBounds(db) ==
    /\ \A u \in db.users : u.id <= MaxUserId
    /\ \A m \in db.members : m.member_id <= MaxMemberId
    /\ \A l \in db.lists : l.list_id <= MaxListId
    /\ \A e \in db.events : e.event_id <= MaxEventId

\* One request served from start to end: the tables the handler leaves are
\* stored (its response goes to the client and is no state of the server).
Serve(result) ==
    /\ InBounds(result.db)
    /\ users' = result.db.users
    /\ members' = result.db.members
    /\ lists' = result.db.lists
    /\ events' = result.db.events

Init ==
    /\ users = {}
    /\ members = {}
    /\ lists = {}
    /\ events = {}
    /\ inflight = [t \in 1..MaxThreads |-> None]

POST_user_add ==
    /\ \E content_type \in ContentTypes, post_data \in UserPayloads :
          Serve(add_user(content_type, post_data))
    /\ UNCHANGED inflight

POST_user_verify ==
    /\ \E content_type \in ContentTypes, post_data \in VerifyPayloads :
          Serve(verify_user(content_type, post_data))
    /\ UNCHANGED inflight

GET_user_get ==
    /\ Serve(get_all_users)
    /\ UNCHANGED inflight

GET_user_get_id ==
    /\ \E id \in PathIds(MaxUserId) :
          Serve(get_user_by_id(id))
    /\ UNCHANGED inflight

DELETE_user_delete ==
    /\ \E id \in PathIds(MaxUserId) :
          Serve(delete_user_by_id(id))
    /\ UNCHANGED inflight

POST_member_add ==
    /\ \E content_type \in ContentTypes, post_data \in MemberPayloads :
          Serve(add_member(content_type, post_data))
    /\ UNCHANGED inflight

GET_member_get ==
    /\ \E id \in PathIds(MaxMemberId) :
          Serve(get_member_by_id(id))
    /\ UNCHANGED inflight

GET_members_get ==
    /\ \E user_id \in PathIds(MaxUserId) :
          Serve(get_members_by_user_id(user_id))
    /\ UNCHANGED inflight

DELETE_member_delete ==
    /\ \E id \in PathIds(MaxMemberId) :
          Serve(delete_member_by_id(id))
    /\ UNCHANGED inflight

PUT_member_update ==
    /\ \E id \in PathIds(MaxMemberId), content_type \in ContentTypes,
          post_data \in MemberUpdates :
          Serve(update_member_by_id(id, content_type, post_data))
    /\ UNCHANGED inflight

POST_item_add ==
    /\ \E content_type \in ContentTypes, post_data \in ItemPayloads :
          Serve(add_item(content_type, post_data))
    /\ UNCHANGED inflight

GET_item_get ==
    /\ \E member_id \in PathIds(MaxMemberId) :
          Serve(get_items_by_member_id(member_id))
    /\ UNCHANGED inflight

PUT_item_update ==
    /\ \E id \in PathIds(MaxListId), content_type \in ContentTypes,
          post_data \in ItemPayloads :
          Serve(update_item_by_id(id, content_type, post_data))
    /\ UNCHANGED inflight

DELETE_item_delete ==
    /\ \E id \in PathIds(MaxListId) :
          Serve(delete_item_by_id(id))
    /\ UNCHANGED inflight

POST_event_add ==
    /\ \E content_type \in ContentTypes, post_data \in EventPayloads :
          Serve(add_event(content_type, post_data))
    /\ UNCHANGED inflight

GET_event_get ==
    /\ \E user_id \in PathIds(MaxUserId) :
          Serve(get_events_by_user_id(user_id))
    /\ UNCHANGED inflight

DELETE_event_delete ==
    /\ \E id \in PathIds(MaxEventId) :
          Serve(delete_event_by_id(id))
    /\ UNCHANGED inflight

Next ==
    \/ POST_user_add
    \/ POST_user_verify
    \/ GET_user_get
    \/ GET_user_get_id
    \/ DELETE_user_delete
    \/ POST_member_add
    \/ GET_member_get
    \/ GET_members_get
    \/ DELETE_member_delete
    \/ PUT_member_update
    \/ POST_item_add
    \/ GET_item_get
    \/ PUT_item_update
    \/ DELETE_item_delete
    \/ POST_event_add
    \/ GET_event_get
    \/ DELETE_event_delete

Spec == Init /\ [][Next]_vars

(* ------------------- concurrent requests to /user/add ----------------- *)
\* The development server runs each request on its own thread.  A thread
\* serving /user/add first runs the look-ups, and later the INSERT and commit,
\* which SQLite runs one at a time; other threads run in between.
AddUserLookup(t) ==
    /\ inflight[t] = None
    /\ \E content_type \in ContentTypes, post_data \in UserPayloads :
          LET early == add_user_lookup(content_type, post_data)
          IN IF early # {}
             THEN /\ Serve(Reply(CHOOSE r \in early : TRUE))
                  /\ UNCHANGED inflight
             ELSE /\ inflight' = [inflight EXCEPT ![t] = Some(post_data)]
                  /\ UNCHANGED <<users, members, lists, events>>

AddUserCommit(t) ==
    /\ inflight[t] # None
    /\ Serve(add_user_commit(inflight[t][1]))
    /\ inflight' = [inflight EXCEPT ![t] = None]

NextConc ==
    \/ \E t \in 1..MaxThreads : AddUserLookup(t)
    \/ \E t \in 1..MaxThreads : AddUserCommit(t)
    \/ DELETE_user_delete

SpecConc == Init /\ [][NextConc]_vars

(* ------------------------------- claims ------------------------------- *)
\* The path parameter that names the row with primary key k.
Path(k) == ToString(k)

UsernameTaken(username) == \E u \in users : Some(u.username) = username
EmailTaken(email) == \E u \in users : Some(u.email) = email
DuplicateFieldErrors ==
    {String("Error: The username is already registered."),
     String("Error: The email is already registered.")}
\* Requests to /user/add that carry a username, a password and an email.
CompleteUserPayloads ==
    {pd \in UserPayloads :
        pd.username # None /\ pd.password # None /\ pd.email # None}

\* C1: in every reachable state, a JSON request to /user/add whose username or
\* email is that of a stored User gets one of the handler's duplicate-field
\* errors and leaves the tables as they are; a request whose username and
\* email are both new stores exactly one more User and returns it with an id
\* no stored User had.
C1_AddUserDuplicateOrCreated ==
    \A pd \in CompleteUserPayloads :
        LET r == add_user(JSON, pd)
        IN IF UsernameTaken(pd.username) \/ EmailTaken(pd.email)
           THEN r.response \in DuplicateFieldErrors /\ r.db = Db
           ELSE /\ r.response.kind = "object"
                /\ \E d \in r.response.data :
                      /\ d.id \notin {u.id : u \in users}
                      /\ Some(d.username) = pd.username
                      /\ Some(d.email) = pd.email
                      /\ \E n \in r.db.users :
                            n.id = d.id /\ r.db.users = users \cup {n}
                /\ Cardinality(r.db.users) = Cardinality(users) + 1

\* C2: in every state reachable by interleaved requests, no two stored Users
\* have the same username and no two have the same email.
C2_UsernameAndEmailUnique ==
    \A u1 \in users, u2 \in users :
        u1 # u2 => u1.username # u2.username /\ u1.email # u2.email

\* C2 witness: a thread ran its duplicate look-ups, found nothing, and has
\* not committed, while another thread has since stored a User with the same
\* username; both ran their look-up before either committed.
C2_Witness ==
    \E t \in 1..MaxThreads, o \in 1..MaxThreads :
        /\ t # o
        /\ inflight[t] # None
        /\ inflight[o] = None
        /\ \E u \in users :
              /\ Some(u.username) = inflight[t][1].username
              /\ Some(u.email) # inflight[t][1].email
        /\ Cardinality(users) = 1

\* C3: in every reachable state, deleting an existing User succeeds and leaves
\* no Member of that User, no List item of one of those Members and no Event
\* of that User; deleting an existing Member succeeds and leaves no List item
\* of that Member.
C3_CascadeClosure ==
    /\ \A u \in users :
          LET r == delete_user_by_id(Path(u.id))
              owned == {m \in members : m.user_id = u.id}
          IN /\ r.response = String("The user has been deleted")
             /\ \A n \in r.db.users : n.id # u.id
             /\ \A m \in r.db.members : m.user_id # u.id
             /\ \A l \in r.db.lists, m \in owned : l.member_id # m.member_id
             /\ \A e \in r.db.events : e.user_id # u.id
    /\ \A m \in members :
          LET r == delete_member_by_id(Path(m.member_id))
          IN /\ r.response = String("The family member has been deleted.")
             /\ \A n \in r.db.members : n.member_id # m.member_id
             /\ \A l \in r.db.lists : l.member_id # m.member_id

\* C3 witness: a User owns a Member that owns a List item, and an Event;
\* another Member belongs to someone else; deleting the User removes the
\* first three and keeps the other Member.
C3_Witness ==
    \E u \in users, m \in members, o \in members, l \in lists, e \in events :
        /\ m.user_id = u.id
        /\ l.member_id = m.member_id
        /\ e.user_id = u.id
        /\ o.user_id # u.id
        /\ LET r == delete_user_by_id(Path(u.id))
           IN /\ r.db.members = {o}
              /\ r.db.lists = {}
              /\ r.db.events = {}

\* C4: in every reachable state, a JSON update of an existing Member or List
\* item leaves the row with the payload's value in every field the payload
\* carries and with its old value in every other field.
C4_PartialUpdate ==
    /\ \A m \in members, pd \in MemberUpdates :
          LET r == update_member_by_id(Path(m.member_id), JSON, pd)
          IN \E n \in r.db.members :
                /\ n.member_id = m.member_id
                /\ n.first_name =
                       IF pd.first_name # None THEN pd.first_name[1]
                       ELSE m.first_name
                /\ n.last_name =
                       IF pd.last_name # None THEN pd.last_name[1]
                       ELSE m.last_name
                /\ n.user_id = m.user_id
    /\ \A l \in lists, pd \in ItemPayloads :
          LET r == update_item_by_id(Path(l.list_id), JSON, pd)
          IN \E n \in r.db.lists :
                /\ n.list_id = l.list_id
                /\ n.text = IF pd.text # None THEN pd.text[1] ELSE l.text
                /\ n.is_completed =
                       IF pd.is_completed # None THEN pd.is_completed[1]
                       ELSE l.is_completed
                /\ n.list_type =
                       IF pd.list_type # None THEN pd.list_type[1]
                       ELSE l.list_type
                /\ n.member_id =
                       IF pd.member_id # None THEN pd.member_id[1]
                       ELSE l.member_id

\* C5: in every reachable state, every stored Member's user_id is the id of a
\* stored User and every stored List item's member_id is the member_id of a
\* stored Member.
C5_ReferentialIntegrity ==
    /\ \A m \in members : \E u \in users : u.id = m.user_id
    /\ \A l \in lists : \E m \in members : m.member_id = l.member_id

\* C6: in every reachable state and for every path parameter,
\* /members/get/<user_id> returns the array of exactly the stored Members
\* whose user_id is the queried number, and leaves the tables as they are.
C6_MembersOfUser ==
    \A user_id \in PathIds(MaxUserId) :
        LET r == get_members_by_user_id(user_id)
            mine == {m \in members : Path(m.user_id) = user_id}
        IN /\ r.db = Db
           /\ r.response.kind = "array"
           /\ {d.member_id : d \in r.response.data} =
                  {m.member_id : m \in mine}
           /\ r.response.data = {member_schema(m, lists) : m \in mine}

\* C6 witness: Members of two Users are stored, the Member created first
\* belonging to the User created last; the query for one User returns its
\* Member and not the other's.
C6_Witness ==
    \E m \in members, o \in members :
        /\ m.member_id < o.member_id
        /\ m.user_id > o.user_id
        /\ {u.id : u \in users} = {m.user_id, o.user_id}
        /\ {d.member_id :
               d \in get_members_by_user_id(Path(m.user_id)).response.data}
               = {m.member_id}

C8_NotJsonRejected ==
    \A content_type \in ContentTypes \ {JSON} :
        LET Rejected(r) ==
                /\ r.response = String("Error: Data must be json")
                /\ r.db = Db
        IN /\ \A pd \in UserPayloads : Rejected(add_user(content_type, pd))
           /\ \A pd \in VerifyPayloads :
                 Rejected(verify_user(content_type, pd))
           /\ \A pd \in MemberPayloads :
                 Rejected(add_member(content_type, pd))
           /\ \A id \in PathIds(MaxMemberId), pd \in MemberUpdates :
                 Rejected(update_member_by_id(id, content_type, pd))
           /\ \A pd \in ItemPayloads : Rejected(add_item(content_type, pd))
           /\ \A id \in PathIds(MaxListId), pd \in ItemPayloads :
                 Rejected(update_item_by_id(id, content_type, pd))
           /\ \A pd \in EventPayloads : Rejected(add_event(content_type, pd))

\* C8 witness: every table holds a row, and a well-formed body that the
\* handler would store when sent as JSON is rejected when sent as text.
C8_Witness ==
    /\ users # {} /\ members # {} /\ lists # {} /\ events # {}
    /\ \E pd \in EventPayloads :
          /\ add_event(JSON, pd).db # Db
          /\ add_event("text/plain", pd).response = NotJson
          /\ add_event("text/plain", pd).db = Db

\* C9: in every reachable state, a GET, update or delete request whose path
\* parameter names no stored row does not fault: a GET by id answers the
\* empty object, an update or delete answers with status 200, and the
\* tables stay as they are.
C9_NotFoundGuarded ==
    /\ \A id \in PathIds(MaxUserId) :
          (\A u \in users : Path(u.id) # id) =>
              /\ get_user_by_id(id) = Reply(Object({}))
              /\ delete_user_by_id(id).response.status = 200
              /\ delete_user_by_id(id).db = Db
    /\ \A id \in PathIds(MaxMemberId) :
          (\A m \in members : Path(m.member_id) # id) =>
              /\ get_member_by_id(id) = Reply(Object({}))
              /\ delete_member_by_id(id).response.status = 200
              /\ delete_member_by_id(id).db = Db
              /\ \A pd \in MemberUpdates :
                    /\ update_member_by_id(id, JSON, pd).response.status = 200
                    /\ update_member_by_id(id, JSON, pd).db = Db
    /\ \A id \in PathIds(MaxListId) :
          (\A l \in lists : Path(l.list_id) # id) =>
              /\ delete_item_by_id(id).response.status = 200
              /\ delete_item_by_id(id).db = Db
              /\ \A pd \in ItemPayloads :
                    /\ update_item_by_id(id, JSON, pd).response.status = 200
                    /\ update_item_by_id(id, JSON, pd).db = Db
    /\ \A id \in PathIds(MaxEventId) :
          (\A e \in events : Path(e.event_id) # id) =>
              /\ delete_event_by_id(id).response.status = 200
              /\ delete_event_by_id(id).db = Db

\* C10: in every reachable state, the User a successful /user/add returns
\* has no members and no events, and no stored Member or Event carries the
\* new User's id.
C10_FreshUserOwnsNothing ==
    \A pd \in UserPayloads :
        LET r == add_user(JSON, pd)
        IN r.response.kind = "object" =>
              \A d \in r.response.data :
                  /\ d.members = {}
                  /\ d.events = {}
                  /\ \A m \in r.db.members : m.user_id # d.id
                  /\ \A e \in r.db.events : e.user_id # d.id

====
